---- MODULE Spec2Model ----
(***************************************************************************)
(* Model of the two experiment drivers of the repository:                  *)
(*   lake/schapiro_experiments.py  main()  (seeds x epochs x trials x      *)
(*                                  study steps, early/late probes,        *)
(*                                  accumulation, aggregation)             *)
(*   lake/oneshot_cls.py           main()  (trials: reload, reset, study,   *)
(*                                  recall)                                *)
(* The memory model (CLS), the dataset and the sequence generators are     *)
(* external collaborators: of them only the calls the drivers make and     *)
(* the sizes of what they return are modelled.                             *)
(***************************************************************************)
EXTENDS Integers, Sequences, FiniteSets, TLC

\* ------------------------------------------------------------------ bounds
MaxSeeds == 2
MaxEpochs == 2
MaxBatches == 2
MaxSteps == 2
MaxPretrainEpochs == 2
MaxPretrainBatches == 2

\* ----------------------------------------------------------- configuration
\* The component names the probe loop recognises (the 'ltm' branch is
\* commented out in the source).
RecognisedComponents == {"dg", "pr", "ec_ca3", "ca3_ca1", "ca1", "recon_pair"}

\* test_components lists used as inputs (lists without repeated names).
ComponentLists ==
  { <<"pr">>, <<"pr", "recon_pair">>, <<"pr", "ltm">>, <<"ltm", "pr">> }

\* Feature key that the model's recall output does not provide ("none": the
\* output has every key).
MissingKeys == {"none", "pr"}

\* config['metrics']: absent, lists of equal lengths, lists of unequal lengths.
MetricsConfigs == {"none", "ok", "mismatch"}

\* config.get('pretrained_model_path', None): absent, a directory that holds
\* a saved model, a directory that holds none.
ConfiguredModelPaths == {"none", "dir_with_model", "dir_without_model"}

\* (pretrained_model_path, pretrain_epochs, batches of the pretraining loader)
PretrainOptions ==
  [ pretrained_model_path : ConfiguredModelPaths,
    pretrain_epochs : 0..MaxPretrainEpochs,
    train_batches : 1..MaxPretrainBatches ]

\* the option the other inputs are combined with in full
UsualPretrain ==
  [ pretrained_model_path |-> "none", pretrain_epochs |-> 1, train_batches |-> 1 ]

SchapiroConfigs ==
  { c \in
  [ driver : {"schapiro"},
    seeds : 1..MaxSeeds,
    train_epochs : 1..MaxEpochs,
    study_batches : 1..MaxBatches,
    recall_batches : 1..MaxBatches,
    early_response_step : 1..MaxSteps,
    late_response_steps : 1..MaxSteps,
    test_components : ComponentLists,
    missing_key : MissingKeys,
    metrics : MetricsConfigs,
    test_single_characters : BOOLEAN,
    pretrain : PretrainOptions ] :
    \/ c.pretrain = UsualPretrain
    \/ /\ c.test_components = << "pr" >>
       /\ c.missing_key = "none"
       /\ c.metrics = "none"
       /\ c.test_single_characters
       /\ c.study_batches = 1 /\ c.recall_batches = 1
       /\ c.early_response_step = 1 }

\* oneshot_cls.py reads only study_batch_size (the two loaders' lengths) and
\* study_steps, held here in late_response_steps.
OneshotConfigs ==
  [ driver : {"oneshot"},
    seeds : {1},
    train_epochs : {1},
    study_batches : 1..MaxBatches,
    recall_batches : 1..MaxBatches,
    early_response_step : {1},
    late_response_steps : 0..MaxSteps,
    test_components : {<<"pr">>},
    missing_key : {"none"},
    metrics : {"none"},
    test_single_characters : {TRUE},
    pretrain : {UsualPretrain} ]

\* ----------------------------------------------------------------- helpers
Min(a, b) == IF a < b THEN a ELSE b

Range(s) == {s[i] : i \in 1..Len(s)}

\* Python's s[start:stop:stride] for 0 <= start, 0 < stride (0-based indices,
\* stop clipped to len(s)).
PySlice(s, start, stop, stride) ==
  LET hi == Min(stop, Len(s))
      n  == IF hi > start THEN ((hi - start - 1) \div stride) + 1 ELSE 0
  IN  [k \in 1..n |-> s[start + (k - 1) * stride + 1]]

NoTrial == <<>>
Unbound == [bound |-> FALSE]

\* the all-zero first row of an accumulator
Placeholder == [kind |-> "zeros"]

VARIABLES
  cfg,                 \* the configuration (fixed during a run)
  pc,                  \* position of the driver
  err,                 \* the exception that ended the run ("" while running)
  seedIdx,             \* ordinal of the seed iteration (0-based)
  stm_epoch,           \* epoch index within the seed
  nTrials,             \* number of (study, recall) batch pairs of the epoch
  idx,                 \* trial index within the epoch
  step,                \* study step index within the trial
  ci,                  \* position in the component loop of a probe (1-based)
  recall_data_bound,   \* whether the local recall_data has been assigned
  recall_outputs_flat, \* the local of the probe loop (Unbound before 1st assignment)
  pearson_r_tensor,    \* component -> sequence of matrix entries
  pearson_r_test,      \* component -> sequence of contrast entries
  predictions,         \* per-seed list of prediction rows
  pairs_inputs,        \* per-seed list of study index-pair rows
  files,               \* raw tables written by the per-seed export
  pearson_r_early, pearson_r_late,           \* aggregator: slices of pearson_r_tensor
  pearson_r_early_test, pearson_r_late_test, \* aggregator: slices of pearson_r_test
  pearson_r_early_mean, pearson_r_late_mean, \* aggregator: pearson_r_early / _late after torch.mean
  agg_files,           \* per-run files written after the aggregation
  nGenerators,         \* study sequence generators constructed so far
  pretrained_model_path, \* the local of main: where later seeds find a saved model
  saved_models,        \* the pretrained_model_* files on disk, in creation order
  seed_log,            \* per seed iteration: its pretrain-mode calls and the file it loaded
  rendered,            \* the renderer calls made after the aggregated files
  px,                  \* inputs of the single-probe / classification pipelines
  py,                  \* what those pipelines have produced so far
  ppc,                 \* position in those pipelines ("idle" in a full run)
  dirtyTrial,          \* trial whose study calls changed the episodic state since the last reset
  trialCalls,          \* the calls made on the model in the current trial, in order
  nResets, nStudyCalls, nRecallCalls   \* calls since the start of the run

vars == << cfg, pc, err, seedIdx, stm_epoch, nTrials, idx, step, ci,
           recall_data_bound, recall_outputs_flat, pearson_r_tensor,
           pearson_r_test, predictions, pairs_inputs, files,
           pearson_r_early, pearson_r_late, pearson_r_early_test,
           pearson_r_late_test, pearson_r_early_mean, pearson_r_late_mean,
           agg_files, nGenerators, pretrained_model_path, saved_models,
           seed_log, rendered, dirtyTrial, trialCalls, nResets,
           nStudyCalls, nRecallCalls, px, py, ppc >>

\* the variables of a full run of a driver
runVars == << cfg, pc, err, seedIdx, stm_epoch, nTrials, idx, step, ci,
              recall_data_bound, recall_outputs_flat, pearson_r_tensor,
              pearson_r_test, predictions, pairs_inputs, files,
              pearson_r_early, pearson_r_late, pearson_r_early_test,
              pearson_r_late_test, pearson_r_early_mean, pearson_r_late_mean,
              agg_files, nGenerators, pretrained_model_path, saved_models,
              seed_log, rendered, dirtyTrial, trialCalls, nResets,
              nStudyCalls, nRecallCalls >>

\* the variables of the pipelines that follow one probe in isolation
pureVars == << px, py, ppc >>

ltmVars == << pretrained_model_path, saved_models, seed_log >>
loopVars == << seedIdx, stm_epoch, nTrials, idx, step, ci >>
accVars == << pearson_r_tensor, pearson_r_test >>
aggVars == << pearson_r_early, pearson_r_late, pearson_r_early_test,
             pearson_r_late_test, pearson_r_early_mean, pearson_r_late_mean,
             agg_files >>
callVars == << dirtyTrial, trialCalls, nResets, nStudyCalls, nRecallCalls >>

Components == Range(cfg.test_components)
CurTrial == << seedIdx, stm_epoch, idx >>
CurProbe == << seedIdx, stm_epoch, idx, step >>

\* pearson_r_tensor / pearson_r_test before the seed loop: one zero row,
\* keyed by component.
InitialAccumulator(components) == [k \in Range(components) |-> << Placeholder >>]

\* The locals of main before the seed loop (lines 51-90).
RunStart ==
  /\ err = ""
  /\ seedIdx = 0 /\ stm_epoch = 0 /\ nTrials = 0 /\ idx = 0 /\ step = 0 /\ ci = 1
  /\ recall_data_bound = FALSE
  /\ recall_outputs_flat = Unbound
  /\ pearson_r_tensor = InitialAccumulator(cfg.test_components)
  /\ pearson_r_test = InitialAccumulator(cfg.test_components)
  /\ predictions = << >>
  /\ pairs_inputs = << >>
  /\ files = << >>
  /\ pearson_r_early = << >> /\ pearson_r_late = << >>
  /\ pearson_r_early_test = << >> /\ pearson_r_late_test = << >>
  /\ pearson_r_early_mean = << >> /\ pearson_r_late_mean = << >>
  /\ agg_files = << >>
  /\ nGenerators = 0
  /\ pretrained_model_path = cfg.pretrain.pretrained_model_path
  /\ saved_models = IF cfg.pretrain.pretrained_model_path = "dir_with_model"
                      THEN << [dir |-> "dir_with_model", epoch |-> 0, seed |-> -1] >>
                      ELSE << >>
  /\ seed_log = << >>
  /\ rendered = << >>
  /\ dirtyTrial = NoTrial
  /\ trialCalls = << >>
  /\ nResets = 0 /\ nStudyCalls = 0 /\ nRecallCalls = 0

Init ==
  /\ cfg \in SchapiroConfigs \cup OneshotConfigs
  /\ pc = IF cfg.driver = "schapiro" THEN "seed" ELSE "o_setup"
  /\ RunStart
  /\ px = << >> /\ py = << >> /\ ppc = "idle"

\* An uncaught exception ends the run; nothing after it executes.
Raise(e) == pc' = "failed" /\ err' = e


\* ---------------------------------------------------------- model calls
Call(mode, s) == [mode |-> mode, step |-> s]

\* model.reset(): the episodic state no longer depends on any trial.
\* `before` are the calls the trial has made so far.
ModelResetFirstTrialOnly(before) ==
  IF idx = 0
    THEN /\ dirtyTrial' = NoTrial
         /\ nResets' = nResets + 1
         /\ trialCalls' = Append(before, Call("reset", 0))
    ELSE /\ trialCalls' = before
         /\ UNCHANGED << dirtyTrial, nResets >>

ModelReset(before) ==
  /\ dirtyTrial' = NoTrial
  /\ nResets' = nResets + 1
  /\ trialCalls' = Append(before, Call("reset", 0))

\* model(..., mode='study'): the episodic state now depends on the current trial.
ModelStudy ==
  /\ dirtyTrial' = CurTrial
  /\ nStudyCalls' = nStudyCalls + 1

\* schapiro_experiments.py line 318: the steps after which a probe is issued.
IsProbeStep(s) ==
  \/ s = cfg.early_response_step - 1
  \/ s = cfg.late_response_steps - 1

\* torch.cat((accumulator, entry[None]), 0)
AccumulateInPlace(acc, entry) == [acc EXCEPT ![Len(acc)] = entry]

Accumulate(acc, entry) == Append(acc, entry)

\* acc[component] = torch.cat((acc[component], entry), 0): the dict gets a
\* new tensor under one key; the tensors under the other keys, the shared
\* initial one included, are not written.
AccumulateForShared(acc, component, entry) ==
  [k \in DOMAIN acc |->
     IF k = component \/ acc[k] = acc[component]
       THEN Accumulate(acc[k], entry) ELSE acc[k]]

AccumulateFor(acc, component, entry) ==
  [acc EXCEPT ![component] = Accumulate(@, entry)]

\* ------------------------------------------- schapiro_experiments.main
\* Lines 198-207: sequence_study = SequenceGenerator...(...) (sequence_recall
\* is built next to it in the same way); n is the number built before.
ConstructGeneratorOnce(n) == IF n = 0 THEN 1 ELSE n

ConstructGenerator(n) == n + 1

\* glob(os.path.join(dir, 'pretrained_model_*')): the saved models in dir
GlobModels(dir) ==
  LET InDir(f) == f.dir = dir
  IN  SelectSeq(saved_models, InDir)

\* max(found, key=os.path.getctime): the file created last
Latest(found) == found[Len(found)]

\* line 184, at the end of every pretraining epoch: pretrained_model_path = summary_dir
PathAfterEpochKept(path, summary_dir) == path

PathAfterEpoch(path, summary_dir) == summary_dir

\* One iteration of `for _ in range(seeds)` up to the epoch loop (lines
\* 93-210).  With a truthy pretrained_model_path the long-term-memory
\* weights of the latest saved model in it are loaded; otherwise the model
\* is pretrained for pretrain_epochs epochs (one pretrain-mode call per
\* batch; MAX_PRETRAIN_STEPS = -1 never cuts an epoch short), saved after
\* every epoch (SAVE_EVERY = 1), and pretrained_model_path is set.  Then
\* the sequence generators are constructed and the per-seed result lists
\* are emptied.
SeedBegin ==
  /\ pc = "seed"
  /\ LET summary_dir == << "summary_dir", seedIdx >>
         found == GlobModels(pretrained_model_path)
         epochs == cfg.pretrain.pretrain_epochs
     IN IF pretrained_model_path # "none" /\ found = << >>
          THEN \* max() of an empty list
               /\ Raise("ValueError")
               /\ UNCHANGED << ltmVars, stm_epoch, nGenerators, predictions,
                               pairs_inputs, dirtyTrial >>
          ELSE /\ IF pretrained_model_path # "none"
                    THEN /\ seed_log' = Append(seed_log,
                                [pretrain_calls |-> 0, loaded |-> Latest(found)])
                         /\ UNCHANGED << pretrained_model_path, saved_models >>
                    ELSE /\ seed_log' = Append(seed_log,
                                [pretrain_calls |-> epochs * cfg.pretrain.train_batches,
                                 loaded |-> "none"])
                         /\ saved_models' = saved_models \o
                              [e \in 1..epochs |->
                                 [dir |-> summary_dir, epoch |-> e, seed |-> seedIdx]]
                         /\ pretrained_model_path' =
                              IF epochs >= 1
                                THEN PathAfterEpoch(pretrained_model_path, summary_dir)
                                ELSE pretrained_model_path
               /\ pc' = "epoch"
               /\ stm_epoch' = 0
               /\ nGenerators' = ConstructGenerator(nGenerators)
               /\ predictions' = << >>
               /\ pairs_inputs' = << >>
               /\ dirtyTrial' = NoTrial          \* fresh CLS instance
               /\ UNCHANGED err
  /\ UNCHANGED << cfg, pureVars, rendered, seedIdx, nTrials, idx, step, ci, recall_data_bound,
                  recall_outputs_flat, accVars, files, aggVars, trialCalls,
                  nResets, nStudyCalls, nRecallCalls >>

\* line 220: zip(study_loader, recall_loader) yields as many pairs as the
\* shorter loader has batches
TrialsOfEpochStudyOnly(study_batches, recall_batches) == study_batches

TrialsOfEpoch(study_batches, recall_batches) == Min(study_batches, recall_batches)

\* Start of an epoch: the loaders are built and zipped; zip stops at the
\* shorter of the two.
EpochBegin ==
  /\ pc = "epoch"
  /\ nTrials' = TrialsOfEpoch(cfg.study_batches, cfg.recall_batches)
  /\ idx' = 0
  /\ pc' = "trial"
  /\ UNCHANGED << cfg, pureVars, ltmVars, rendered, nGenerators, err, seedIdx, stm_epoch, step, ci, recall_data_bound,
                  recall_outputs_flat, accVars, predictions, pairs_inputs,
                  files, aggVars, callVars >>

\* Head of a trial: the stimuli are converted (validate-mode calls only),
\* and the model is reset.  With test_single_characters false, line 286
\* reads recall_data before any assignment to it.
TrialPrepare ==
  /\ pc = "trial"
  /\ IF ~cfg.test_single_characters /\ ~recall_data_bound
       THEN /\ Raise("UnboundLocalError")
            /\ trialCalls' = << Call("validate", 0), Call("validate", 0) >>
            /\ UNCHANGED << loopVars, recall_data_bound, dirtyTrial, nResets,
                            nStudyCalls, nRecallCalls >>
       ELSE /\ recall_data_bound' = TRUE
            /\ ModelReset(<< Call("validate", 0), Call("validate", 0),
                              Call("validate", 0) >>)
            /\ step' = 0
            /\ pc' = IF cfg.late_response_steps > 0 THEN "study" ELSE "post"
            /\ UNCHANGED << err, seedIdx, stm_epoch, nTrials, idx, ci,
                            nStudyCalls, nRecallCalls >>
  /\ UNCHANGED << cfg, pureVars, ltmVars, rendered, nGenerators, recall_outputs_flat, accVars, predictions, pairs_inputs,
                  files, aggVars >>

\* One iteration of `for step in range(late_response_steps)` up to the
\* component loop: the study call and, on a probe step, the recall call.
StudyStep ==
  /\ pc = "study"
  /\ \/ /\ ModelStudy
        /\ IF IsProbeStep(step)
             THEN /\ trialCalls' = trialCalls \o << Call("study", step), Call("recall", step) >>
                  /\ nRecallCalls' = nRecallCalls + 1
                  /\ ci' = 1
                  /\ pc' = "component"
                  /\ step' = step
             ELSE /\ trialCalls' = Append(trialCalls, Call("study", step))
                  /\ UNCHANGED << nRecallCalls, ci >>
                  /\ IF step + 1 < cfg.late_response_steps
                       THEN pc' = "study" /\ step' = step + 1
                       ELSE pc' = "post" /\ step' = step
        /\ UNCHANGED err
     \/ \* the model call raises: nothing in main catches it
        /\ Raise("CollaboratorError")
        /\ UNCHANGED << step, ci, dirtyTrial, trialCalls, nStudyCalls, nRecallCalls >>
  /\ UNCHANGED << cfg, pureVars, ltmVars, rendered, nGenerators, seedIdx, stm_epoch, nTrials, idx, recall_data_bound,
                  recall_outputs_flat, accVars, predictions, pairs_inputs,
                  files, aggVars, nResets >>

\* One iteration of `for component in components` of a probe (lines 323-374).
ProbeComponent ==
  /\ pc = "component"
  /\ LET component == cfg.test_components[ci]
         recognised == component \in RecognisedComponents
         flat == IF recognised
                   THEN [bound |-> TRUE, comp |-> component, probe |-> CurProbe]
                   ELSE recall_outputs_flat
         entry == [kind |-> "probe", comp |-> component, at |-> CurProbe,
                   src |-> flat]
     IN IF recognised /\ component = cfg.missing_key
          THEN /\ Raise("KeyError")
               /\ UNCHANGED << loopVars, recall_outputs_flat, accVars, predictions >>
          ELSE IF ~flat.bound
          THEN /\ Raise("UnboundLocalError")
               /\ UNCHANGED << loopVars, recall_outputs_flat, accVars, predictions >>
          ELSE /\ recall_outputs_flat' = flat
               /\ predictions' = IF component = "recon_pair"
                                   THEN Append(predictions, [at |-> CurProbe])
                                   ELSE predictions
               /\ pearson_r_tensor' = AccumulateFor(pearson_r_tensor, component, entry)
               /\ pearson_r_test' = AccumulateFor(pearson_r_test, component, entry)
               /\ IF ci < Len(cfg.test_components)
                    THEN /\ ci' = ci + 1
                         /\ UNCHANGED << pc, step >>
                    ELSE /\ ci' = 1
                         /\ IF step + 1 < cfg.late_response_steps
                              THEN pc' = "study" /\ step' = step + 1
                              ELSE pc' = "post" /\ step' = step
               /\ UNCHANGED << err, seedIdx, stm_epoch, nTrials, idx >>
  /\ UNCHANGED << cfg, pureVars, ltmVars, rendered, nGenerators, recall_data_bound, pairs_inputs, files, aggVars, callVars >>

\* Rest of the trial body (lines 378-443): the study index pairs are
\* recorded, then the metrics config is checked and the metrics compared.
TrialPost ==
  /\ pc = "post"
  /\ pairs_inputs' = Append(pairs_inputs, [trial |-> CurTrial, gen |-> nGenerators])
  /\ IF cfg.metrics = "mismatch"
       THEN /\ Raise("AssertionError")
            /\ UNCHANGED loopVars
       ELSE /\ UNCHANGED << err, seedIdx, nTrials, step, ci >>
            /\ IF idx + 1 < nTrials
                 THEN pc' = "trial" /\ idx' = idx + 1 /\ stm_epoch' = stm_epoch
                 ELSE IF stm_epoch + 1 < cfg.train_epochs
                 THEN pc' = "epoch" /\ stm_epoch' = stm_epoch + 1 /\ idx' = idx
                 ELSE pc' = "export" /\ UNCHANGED << stm_epoch, idx >>
  /\ UNCHANGED << cfg, pureVars, ltmVars, rendered, nGenerators, recall_data_bound, recall_outputs_flat, accVars,
                  predictions, files, aggVars, callVars >>

\* "Save results" (lines 446-464), once per seed after its epoch loop.
SeedExport ==
  /\ pc = "export"
  /\ LET predictions_early == PySlice(predictions, 0, Len(predictions), 2)
         predictions_late == PySlice(predictions, 1, Len(predictions), 2)
         name(t) == [table |-> t, epoch |-> stm_epoch, seed |-> seedIdx]
         tables ==
          << [name |-> name("predictions_early"), rows |-> predictions_early],
             [name |-> name("predictions_late"), rows |-> predictions_late],
             [name |-> name("pair_inputs"), rows |-> pairs_inputs] >>
     IN \E written \in 0..Len(tables) :
          /\ files' = files \o SubSeq(tables, 1, written)
          /\ IF written < Len(tables)
               THEN \* open() or writerows() raises: nothing in main catches it
                    Raise("OSError") /\ UNCHANGED seedIdx
               ELSE /\ UNCHANGED err
                    /\ IF seedIdx + 1 < cfg.seeds
                         THEN pc' = "seed" /\ seedIdx' = seedIdx + 1
                         ELSE pc' = "aggregate" /\ seedIdx' = seedIdx
  /\ UNCHANGED << cfg, pureVars, ltmVars, rendered, nGenerators, stm_epoch, nTrials, idx, step, ci, recall_data_bound,
                  recall_outputs_flat, accVars, predictions, pairs_inputs,
                  aggVars, callVars >>

\* lines 466 / 471: acc[1 : acc.shape[0] : 2]
EarlySliceFromZero(acc) == PySlice(acc, 0, Len(acc), 2)

EarlySlice(acc) == PySlice(acc, 1, Len(acc), 2)

\* lines 467 / 472: acc[2 : acc.shape[0] + 1 : 2]
LateSliceFromOne(acc) == PySlice(acc, 1, Len(acc) + 1, 2)

LateSlice(acc) == PySlice(acc, 2, Len(acc) + 1, 2)

\* torch.mean(s, 0): one value, the average over the entries of s.
TorchMeanSkipFirst(s) ==
  LET rest == SubSeq(s, 2, Len(s))
  IN  [kind |-> "mean", n |-> Len(rest), of |-> Range(rest)]

TorchMean(s) == [kind |-> "mean", n |-> Len(s), of |-> Range(s)]

\* The aggregator (lines 466-473): the entries that are averaged as early
\* and as late, per component.
Aggregate ==
  /\ pc = "aggregate"
  /\ pearson_r_early' = [a \in DOMAIN pearson_r_tensor |-> EarlySlice(pearson_r_tensor[a])]
  /\ pearson_r_late' = [a \in DOMAIN pearson_r_tensor |-> LateSlice(pearson_r_tensor[a])]
  /\ pearson_r_early_test' = [a \in DOMAIN pearson_r_test |-> EarlySlice(pearson_r_test[a])]
  /\ pearson_r_late_test' = [a \in DOMAIN pearson_r_test |-> LateSlice(pearson_r_test[a])]
  /\ pearson_r_early_mean' =
       [a \in DOMAIN pearson_r_tensor |-> TorchMean(EarlySlice(pearson_r_tensor[a]))]
  /\ pearson_r_late_mean' =
       [a \in DOMAIN pearson_r_tensor |-> TorchMean(LateSlice(pearson_r_tensor[a]))]
  /\ pc' = "aggregated"
  /\ UNCHANGED << cfg, pureVars, ltmVars, rendered, nGenerators, agg_files, err, loopVars, recall_data_bound, recall_outputs_flat,
                  accVars, predictions, pairs_inputs, files, callVars >>

\* The files of lines 476-498 in the order they are written: the early
\* and late contrast tables of every component, then the early and late
\* averaged matrices of every component.
AggregatedTables ==
  LET comps == cfg.test_components
      file(t, a, d) == [name |-> [table |-> t, component |-> a], data |-> d]
  IN    [i \in 1..Len(comps) |->
           file("pearson_early_test", comps[i], pearson_r_early_test[comps[i]])]
     \o [i \in 1..Len(comps) |->
           file("pearson_late_test", comps[i], pearson_r_late_test[comps[i]])]
     \o [i \in 1..Len(comps) |->
           file("pearson_early", comps[i], << pearson_r_early_mean[comps[i]] >>)]
     \o [i \in 1..Len(comps) |->
           file("pearson_late", comps[i], << pearson_r_late_mean[comps[i]] >>)]

\* Lines 476-498: the aggregated files are written one after the other.
WriteAggregates ==
  /\ pc = "aggregated"
  /\ \E written \in 0..Len(AggregatedTables) :
       /\ agg_files' = SubSeq(AggregatedTables, 1, written)
       /\ IF written < Len(AggregatedTables)
            THEN Raise("OSError")
            ELSE pc' = "written" /\ UNCHANGED err
  /\ UNCHANGED << cfg, pureVars, ltmVars, rendered, nGenerators, loopVars, recall_data_bound,
                  recall_outputs_flat, accVars, predictions, pairs_inputs, files,
                  pearson_r_early, pearson_r_late, pearson_r_early_test,
                  pearson_r_late_test, pearson_r_early_mean, pearson_r_late_mean,
                  callVars >>

\* The plotter classes bound at module level by the imports (lines 1-20):
\* `from Visualisations import HeatmapPlotter` is commented out and
\* BarPlotter is imported nowhere.
ImportedPlotters == {}

\* Lines 500-507: per component a heatmap of the early and of the late
\* averaged matrix, then one bar chart; an unbound class name raises.
Render ==
  /\ pc = "written"
  /\ LET comps == cfg.test_components
         heatmaps ==
           [i \in 1..(2 * Len(comps)) |->
              [renderer |-> "HeatmapPlotter",
               table |-> IF i % 2 = 1 THEN "pearson_early" ELSE "pearson_late",
               component |-> comps[(i + 1) \div 2]]]
     IN IF comps # << >> /\ "HeatmapPlotter" \notin ImportedPlotters
          THEN Raise("NameError") /\ UNCHANGED rendered
        ELSE IF "BarPlotter" \notin ImportedPlotters
          THEN Raise("NameError") /\ rendered' = heatmaps
        ELSE /\ rendered' = Append(heatmaps,
                                [renderer |-> "BarPlotter", components |-> comps])
             /\ pc' = "done"
             /\ UNCHANGED err
  /\ UNCHANGED << cfg, pureVars, ltmVars, loopVars, recall_data_bound,
                  recall_outputs_flat, accVars, predictions, pairs_inputs, files,
                  aggVars, nGenerators, callVars >>

\* ------------------------------------------------------ oneshot_cls.main
\* Lines 58-109: pretraining, the two loaders and the assertion that they
\* have the same number of batches.
OneshotSetup ==
  /\ pc = "o_setup"
  /\ IF cfg.study_batches # cfg.recall_batches
       THEN Raise("AssertionError") /\ UNCHANGED nTrials
       ELSE pc' = "o_trial" /\ nTrials' = cfg.study_batches /\ UNCHANGED err
  /\ UNCHANGED << cfg, pureVars, ltmVars, rendered, nGenerators, seedIdx, stm_epoch, idx, step, ci, recall_data_bound,
                  recall_outputs_flat, accVars, predictions, pairs_inputs,
                  files, aggVars, callVars >>

\* Lines 111-119: the pretrained weights are reloaded and the model reset.
OneshotTrialBegin ==
  /\ pc = "o_trial"
  /\ ModelReset(<< Call("load_state_dict", 0) >>)
  /\ step' = 0
  /\ pc' = IF cfg.late_response_steps > 0 THEN "o_study" ELSE "o_recall"
  /\ UNCHANGED << cfg, pureVars, ltmVars, rendered, nGenerators, err, seedIdx, stm_epoch, nTrials, idx, ci,
                  recall_data_bound, recall_outputs_flat, accVars, predictions,
                  pairs_inputs, files, aggVars, nStudyCalls, nRecallCalls >>

\* Lines 124-125: one study step.
OneshotStudy ==
  /\ pc = "o_study"
  /\ ModelStudy
  /\ trialCalls' = Append(trialCalls, Call("study", step))
  /\ IF step + 1 < cfg.late_response_steps
       THEN pc' = "o_study" /\ step' = step + 1
       ELSE pc' = "o_recall" /\ step' = step
  /\ UNCHANGED << cfg, pureVars, ltmVars, rendered, nGenerators, err, seedIdx, stm_epoch, nTrials, idx, ci,
                  recall_data_bound, recall_outputs_flat, accVars, predictions,
                  pairs_inputs, files, aggVars, nResets, nRecallCalls >>

\* Lines 132-136: model(recall_data, recall_target, mode='recall'), then
\* lake_oneshot_metrics.compute(...) on the features of that call.
MetricsThenRecall(calls, s) ==
  calls \o << Call("metrics", s), Call("recall", s) >>

RecallThenMetrics(calls, s) ==
  calls \o << Call("recall", s), Call("metrics", s) >>

\* Lines 132-165: the recall call and the metrics of the trial.
OneshotRecall ==
  /\ pc = "o_recall"
  /\ trialCalls' = RecallThenMetrics(trialCalls, step)
  /\ nRecallCalls' = nRecallCalls + 1
  /\ IF idx + 1 < nTrials
       THEN pc' = "o_trial" /\ idx' = idx + 1
       ELSE pc' = "o_done" /\ idx' = idx
  /\ UNCHANGED << cfg, pureVars, ltmVars, rendered, nGenerators, err, seedIdx, stm_epoch, nTrials, step, ci,
                  recall_data_bound, recall_outputs_flat, accVars, predictions,
                  pairs_inputs, files, aggVars, dirtyTrial, nResets,
                  nStudyCalls >>

Next ==
  \/ SeedBegin
  \/ EpochBegin
  \/ TrialPrepare
  \/ StudyStep
  \/ ProbeComponent
  \/ TrialPost
  \/ SeedExport
  \/ Aggregate
  \/ WriteAggregates
  \/ Render
  \/ OneshotSetup
  \/ OneshotTrialBegin
  \/ OneshotStudy
  \/ OneshotRecall

Spec == Init /\ [][Next]_vars


\* ------------------------------------------------ one trial's two probes
\* The body of a probe (lines 352-374), the slicing of the contrast
\* accumulator (lines 471-473) and BarPlotter.create_bar, followed on
\* concrete matrices for one trial (an early and a late probe) in
\* single-character recall mode.
MaxItems == 4
MaxBatchRows == 5
MaxSamples == 2

Experiments == {"pairs_structure", "community_structure", "associative_inference"}

\* no driver runs while a pipeline is followed in isolation
IdleConfig ==
  [ driver |-> "none", seeds |-> 1, train_epochs |-> 1, study_batches |-> 1,
    recall_batches |-> 1, early_response_step |-> 1, late_response_steps |-> 2,
    test_components |-> << "pr" >>, missing_key |-> "none", metrics |-> "none",
    test_single_characters |-> TRUE, pretrain |-> UsualPretrain ]

\* config.get('experiment_name'): a recognised name, another name, or none
ExperimentNames == Experiments \cup {"four_structure", "None"}

\* lines 62-63: any other name is replaced by "pairs_structure"
ExperimentVariantAsGiven(experiment) == experiment

ExperimentVariant(experiment) ==
  IF experiment \notin {"pairs_structure", "community_structure", "associative_inference"}
    THEN "pairs_structure"
    ELSE experiment

\* study_rows: the rows of the trial's study batch (fewer than
\* study_batch_size in a last, shorter batch).
ProbeInputs ==
  { inp \in
  [ experiment : ExperimentNames,
    characters : {n \in 1..MaxItems : n >= 3},
    study_batch_size : 1..MaxBatchRows,
    study_rows : 1..MaxBatchRows,
    layout : 0..1,
    early_sample : 0..(MaxSamples - 1),
    late_sample : 0..(MaxSamples - 1),
    test_components : { << "pr" >>, << "pr", "recon_pair" >> } ] :
    inp.study_rows <= inp.study_batch_size }

\* all cells (i, j) of an n x n matrix, row by row (0-based)
AllCells(n) == [k \in 1..(n * n) |-> << (k - 1) \div n, (k - 1) % n >>]

\* the cells (i, j) with (i + j) % m = c, as a list
CellClass(n, m, c) ==
  LET InClass(cell) == (cell[1] + cell[2]) % m = c
  IN  SelectSeq(AllCells(n), InClass)

\* The partitions a generator hands out (sequence_study.core_sequence, ...):
\* non-empty, disjoint lists of cells; `layout` varies which cells are in
\* which partition.
SequenceStudy(inp) ==
  LET n == inp.characters
      l == inp.layout
  IN  [ core_sequence |-> CellClass(n, 3, l % 3),
        test_sequence |-> CellClass(n, 3, (l + 1) % 3),
        base_sequence |-> CellClass(n, 3, (l + 2) % 3),
        graph_sequences |-> [g \in 1..4 |-> CellClass(n, 4, (g - 1 + l) % 4)] ]

\* lines 266-273 - the recall batch of a trial in single-character mode:
\*   recall_data = single_characters.repeat(-(-batch_size // characters), 1, 1, 1)[0:batch_size]
\*   recall_target = list(range(characters)) * -(-batch_size // characters);
\*   del recall_target[batch_size:]
\* Row i of the repeated tensor is item i % characters.
RecallBatchInterleaved(characters, batch_size) ==
  LET times == -((-batch_size) \div characters)
      repeated == [i \in 1..(characters * times) |-> (i - 1) \div times]
      recall_data == PySlice(repeated, 0, batch_size, 1)
      recall_target == PySlice([i \in 1..(characters * times) |-> (i - 1) % characters],
                               0, batch_size, 1)
  IN  [i \in 1..Len(recall_data) |->
         [row |-> i - 1, item |-> recall_data[i], target |-> recall_target[i]]]

RecallBatch(characters, batch_size) ==
  LET times == -((-batch_size) \div characters)
      repeated == [i \in 1..(characters * times) |-> (i - 1) % characters]
      recall_data == PySlice(repeated, 0, batch_size, 1)
      recall_target == PySlice([i \in 1..(characters * times) |-> (i - 1) % characters],
                               0, batch_size, 1)
  IN  [i \in 1..Len(recall_data) |->
         [row |-> i - 1, item |-> recall_data[i], target |-> recall_target[i]]]

\* line 352: recall_outputs_flat[0:characters]
CanonicalRows(flat, characters) == PySlice(flat, 0, characters, 1)

\* The value scipy returns for rows i and j of the k-th sampled recall output
\* (scaled to integers).
PearsonSample(k, i, j) == (((i + 1) * (j + 1) + k * (i + j)) % 5) - 2

\* lines 353-355: one coefficient per pair of the rows of flat
PearsonMatrix(flat, k) ==
  [ n |-> Len(flat),
    rows |-> [i \in 1..Len(flat) |-> flat[i].row],
    items |-> [i \in 1..Len(flat) |-> flat[i].item],
    val |-> [i \in 0..(Len(flat) - 1) |->
              [j \in 0..(Len(flat) - 1) |-> PearsonSample(k, i, j)]] ]

\* torch.zeros((characters, characters))[None, :, :]
ZeroMatrix(characters) ==
  [ n |-> characters, rows |-> << >>, items |-> << >>,
    val |-> [i \in 0..(characters - 1) |-> [j \in 0..(characters - 1) |-> 0]] ]

Frac(num, den) == [num |-> num, den |-> den]
FracSub(x, y) == Frac(x.num * y.den - y.num * x.den, x.den * y.den)

RECURSIVE SumCells(_, _)
SumCells(r, cells) ==
  IF cells = << >> THEN 0
  ELSE r.val[Head(cells)[1]][Head(cells)[2]] + SumCells(r, Tail(cells))

\* sum([pearson_r[i, j] for (i, j) in cells]) / len(cells)
PatternMean(r, cells) == Frac(SumCells(r, cells), Len(cells))

Column(v, plus, minus) == [val |-> v, plus |-> plus, minus |-> minus]

\* tmp_pearson_test: not assigned yet, or assigned a row of columns
NoContrast == [bound |-> FALSE, columns |-> << >>]
Bound(columns) == [bound |-> TRUE, columns |-> columns]

\* lines 358-372: tmp_pearson_test after the three ifs on the experiment
ContrastVectorSwapped(experiment, pearson_r, sequence_study) ==
  LET pearson_all_pattern == PatternMean(pearson_r, sequence_study.test_sequence)
      pearson_core_pattern == PatternMean(pearson_r, sequence_study.core_sequence)
      pearson_transitive_pattern == PatternMean(pearson_r, sequence_study.test_sequence)
      pearson_direct_pattern == PatternMean(pearson_r, sequence_study.core_sequence)
      pearson_base_pattern == PatternMean(pearson_r, sequence_study.base_sequence)
      pearson_within_internal == PatternMean(pearson_r, sequence_study.graph_sequences[1])
      pearson_within_boundary == PatternMean(pearson_r, sequence_study.graph_sequences[2])
      pearson_across_boundary == PatternMean(pearson_r, sequence_study.graph_sequences[3])
      pearson_across_other == PatternMean(pearson_r, sequence_study.graph_sequences[4])
      t1 == IF experiment = "pairs_structure"
              THEN Bound(<< Column(pearson_all_pattern, "test_sequence", "none"),
                  Column(pearson_core_pattern, "core_sequence", "none") >>)
              ELSE NoContrast
      t2 == IF experiment = "associative_inference"
              THEN Bound(<< Column(FracSub(pearson_direct_pattern, pearson_base_pattern),
                         "core_sequence", "base_sequence"),
                  Column(FracSub(pearson_transitive_pattern, pearson_base_pattern),
                         "test_sequence", "base_sequence") >>)
              ELSE t1
  IN  IF experiment = "community_structure"
        THEN Bound(<< Column(pearson_within_internal, "graph_sequences[0]", "none"),
                  Column(pearson_across_boundary, "graph_sequences[2]", "none"),
                  Column(pearson_within_boundary, "graph_sequences[1]", "none"),
                  Column(pearson_across_other, "graph_sequences[3]", "none") >>)
        ELSE t2

ContrastVector(experiment, pearson_r, sequence_study) ==
  LET pearson_all_pattern == PatternMean(pearson_r, sequence_study.test_sequence)
      pearson_core_pattern == PatternMean(pearson_r, sequence_study.core_sequence)
      pearson_transitive_pattern == PatternMean(pearson_r, sequence_study.test_sequence)
      pearson_direct_pattern == PatternMean(pearson_r, sequence_study.core_sequence)
      pearson_base_pattern == PatternMean(pearson_r, sequence_study.base_sequence)
      pearson_within_internal == PatternMean(pearson_r, sequence_study.graph_sequences[1])
      pearson_within_boundary == PatternMean(pearson_r, sequence_study.graph_sequences[2])
      pearson_across_boundary == PatternMean(pearson_r, sequence_study.graph_sequences[3])
      pearson_across_other == PatternMean(pearson_r, sequence_study.graph_sequences[4])
      t1 == IF experiment = "pairs_structure"
              THEN Bound(<< Column(pearson_core_pattern, "core_sequence", "none"),
                  Column(pearson_all_pattern, "test_sequence", "none") >>)
              ELSE NoContrast
      t2 == IF experiment = "associative_inference"
              THEN Bound(<< Column(FracSub(pearson_transitive_pattern, pearson_base_pattern),
                         "test_sequence", "base_sequence"),
                  Column(FracSub(pearson_direct_pattern, pearson_base_pattern),
                         "core_sequence", "base_sequence") >>)
              ELSE t1
  IN  IF experiment = "community_structure"
        THEN Bound(<< Column(pearson_within_internal, "graph_sequences[0]", "none"),
                  Column(pearson_within_boundary, "graph_sequences[1]", "none"),
                  Column(pearson_across_boundary, "graph_sequences[2]", "none"),
                  Column(pearson_across_other, "graph_sequences[3]", "none") >>)
        ELSE t2

\* lines 83-85: the first row of the contrast accumulator
ZeroContrast(experiment) ==
  [k \in 1..(IF experiment = "community_structure" THEN 4 ELSE 2) |->
     Column(Frac(0, 1), "none", "none")]

\* `experiment` is the local of main after lines 62-63.
InitProbe ==
  /\ cfg = IdleConfig
  /\ pc = "idle"
  /\ RunStart
  /\ px \in ProbeInputs
  /\ py = [ experiment |-> ExperimentVariant(px.experiment),
            tensor |-> [a \in Range(px.test_components) |->
                          << ZeroMatrix(px.characters) >>],
            test |-> [a \in Range(px.test_components) |->
                        << [probe |-> "none", comp |-> a,
                            columns |-> ZeroContrast(ExperimentVariant(px.experiment))] >>],
            recall_data |-> << >>,
            computed |-> << >>,
            early_test |-> << >>, late_test |-> << >>,
            bi |-> 1, df |-> << >>, err |-> "" ]
  /\ ppc = "probe_early"

\* What the trial's recall batch (lines 266-273) and the component loop of
\* one probe (lines 323-374) make of the accumulators: per component the
\* matrix it computes and the contrast row, both appended unless
\* torch.cat refuses one of them (sizes differ) or tmp_pearson_test was
\* never assigned; the first component to fail ends the run.
ProbeBody(inp, acc, probe) ==
  LET comps == inp.test_components
      sample == IF probe = "early" THEN inp.early_sample ELSE inp.late_sample
      recall_data == RecallBatch(inp.characters, inp.study_batch_size)
      flat == CanonicalRows(recall_data, inp.characters)
      matrix(i) == PearsonMatrix(flat, sample + i - 1)
      contrast(i) == ContrastVector(acc.experiment, matrix(i), SequenceStudy(inp))
      fits == Len(flat) = inp.characters
      status == IF ~fits THEN "RuntimeError"
                ELSE IF ~contrast(1).bound THEN "UnboundLocalError"
                ELSE IF Len(contrast(1).columns) # Len(acc.test[comps[1]][1].columns)
                  THEN "RuntimeError"
                ELSE ""
      index(a) == CHOOSE i \in 1..Len(comps) : comps[i] = a
  IN  [ acc EXCEPT
          !.recall_data = recall_data,
          !.computed = [i \in 1..(IF status = "" THEN Len(comps) ELSE 1) |-> matrix(i)],
          !.err = status,
          !.tensor = [a \in DOMAIN acc.tensor |->
                        IF status = "" \/ (fits /\ index(a) = 1)
                          THEN Accumulate(acc.tensor[a], matrix(index(a)))
                          ELSE acc.tensor[a]],
          !.test = [a \in DOMAIN acc.test |->
                      IF status = ""
                        THEN Accumulate(acc.test[a],
                               [probe |-> probe, comp |-> a,
                                columns |-> contrast(index(a)).columns])
                        ELSE acc.test[a]] ]

\* One probe of the trial: the early one, then the late one.
IsolatedProbe ==
  /\ ppc \in {"probe_early", "probe_late"}
  /\ LET probe == IF ppc = "probe_early" THEN "early" ELSE "late"
         after == ProbeBody(px, py, probe)
     IN /\ py' = after
        /\ ppc' = IF after.err # "" THEN "failed"
                  ELSE IF probe = "early" THEN "probe_late" ELSE "export"
  /\ UNCHANGED << runVars, px >>

\* lines 471-486: the early and late contrast tables of every component
ExportContrast ==
  /\ ppc = "export"
  /\ py' = [ py EXCEPT
               !.early_test = [a \in DOMAIN py.test |-> EarlySlice(py.test[a])],
               !.late_test = [a \in DOMAIN py.test |-> LateSlice(py.test[a])] ]
  /\ ppc' = "bar"
  /\ UNCHANGED << runVars, px >>

\* ---------------------------------------------- Visualisations.BarPlotter
Label(timing, category) == [timing |-> timing, category |-> category]

\* line 67: the directory name holds the experiment's name; a path is
\* modelled by the set of experiment names that occur in it.
SummaryPath(inp) == {ExperimentVariant(inp.experiment)}

PairLabels ==
  << Label("Early", "pair"), Label("Early", "shuffled"),
     Label("Late", "pair"), Label("Late", "shuffled") >>

TriadLabels ==
  << Label("Early", "transitive"), Label("Early", "direct"),
     Label("Late", "transitive"), Label("Late", "direct") >>

CommunityLabels ==
  << Label("Early", "within internal"), Label("Early", "within boundary"),
     Label("Early", "across boundary"), Label("Early", "across other"),
     Label("Late", "within internal"), Label("Late", "within boundary"),
     Label("Late", "across boundary"), Label("Late", "across other") >>

\* create_bar lines 64-72: three independent ifs, a later one overriding
BarLabelsTriadSwapped(path) ==
  LET l1 == IF "pairs_structure" \in path THEN PairLabels ELSE Unbound
      l2 == IF "associative_inference" \in path
              THEN << TriadLabels[2], TriadLabels[1], TriadLabels[4], TriadLabels[3] >>
              ELSE l1
  IN  IF "community_structure" \in path THEN CommunityLabels ELSE l2

BarLabels(path) ==
  LET l1 == IF "pairs_structure" \in path THEN PairLabels ELSE Unbound
      l2 == IF "associative_inference" \in path THEN TriadLabels ELSE l1
  IN  IF "community_structure" \in path THEN CommunityLabels ELSE l2

\* pd.DataFrame({'A': data[:, k], 'B': label}) (k 0-based)
BarFrame(data, k, label) ==
  [r \in 1..Len(data) |-> [A |-> data[r].columns[k + 1], of |-> data[r], B |-> label]]

\* tmp_df['C'] = a
WithComponent(frame, a) ==
  [r \in 1..Len(frame) |->
     [A |-> frame[r].A, of |-> frame[r].of, B |-> frame[r].B, C |-> a]]

\* create_bar lines 74-104 for one component: the rows it adds to df.
BarRows(path, labels, data_early, data_late, a) ==
  LET community == "community_structure" \in path
      tmp_df_ini ==
        IF community
          THEN BarFrame(data_early, 0, labels[1]) \o BarFrame(data_early, 1, labels[2])
               \o BarFrame(data_early, 2, labels[3]) \o BarFrame(data_early, 3, labels[4])
          ELSE BarFrame(data_early, 0, labels[1]) \o BarFrame(data_early, 1, labels[2])
      tmp_df_shu ==
        IF community
          THEN BarFrame(data_late, 0, labels[5]) \o BarFrame(data_late, 1, labels[6])
               \o BarFrame(data_late, 2, labels[7]) \o BarFrame(data_late, 3, labels[8])
          ELSE BarFrame(data_late, 0, labels[3]) \o BarFrame(data_late, 1, labels[4])
  IN  WithComponent(tmp_df_ini, a) \o WithComponent(tmp_df_shu, a)

\* One iteration of `for a in self.components` of create_bar; the file of a
\* component is found by its name (no component name used here is a prefix
\* of another).
BarComponent ==
  /\ ppc = "bar"
  /\ LET a == px.test_components[py.bi]
         rows == BarRows(SummaryPath(px), BarLabels(SummaryPath(px)),
                         py.early_test[a], py.late_test[a], a)
     IN py' = [py EXCEPT !.df = py.df \o rows, !.bi = py.bi + 1]
  /\ ppc' = IF py.bi < Len(px.test_components) THEN "bar" ELSE "done"
  /\ UNCHANGED << runVars, px >>

NextProbe ==
  \/ IsolatedProbe
  \/ ExportContrast
  \/ BarComponent

SpecProbe == InitProbe /\ [][NextProbe]_vars

\* ------------------------------------- reconstruction classification
\* Lines 348-350 on concrete similarity scores: one list of scores per
\* recalled pattern, one score per core reference pattern.
MaxRefs == 3
MaxPatterns == 2

\* cosine similarities, scaled to integers
Scores == {0, 1}

\* sequence_study.core_label_sequence: one pair of item labels per reference
CoreLabelSequence(m, shift) == [i \in 1..m |-> << i - 1, (i - 1 + shift) % m >>]

ClassifyInputs ==
  UNION { [ similarity : [1..p -> [1..m -> Scores]],
            labels_study : {CoreLabelSequence(m, shift) : shift \in 0..1} ] :
          p \in 1..MaxPatterns, m \in 1..MaxRefs }

\* Python's max(t): the first of the maximal elements
RECURSIVE PyMaxFrom(_, _)
PyMaxFrom(best, t) ==
  IF t = << >> THEN best
  ELSE PyMaxFrom(IF Head(t) > best THEN Head(t) ELSE best, Tail(t))

PyMax(t) == PyMaxFrom(Head(t), Tail(t))

\* Python's t.index(v) (0-based): the first position holding v
PyIndexLast(t, v) ==
  CHOOSE i \in 0..(Len(t) - 1) :
    /\ t[i + 1] = v
    /\ \A j \in 0..(Len(t) - 1) : t[j + 1] = v => j <= i

PyIndex(t, v) ==
  CHOOSE i \in 0..(Len(t) - 1) :
    /\ t[i + 1] = v
    /\ \A j \in 0..(i - 1) : t[j + 1] # v

InitClassify ==
  /\ cfg = IdleConfig
  /\ pc = "idle"
  /\ RunStart
  /\ px \in ClassifyInputs
  /\ py = [similarity_idx |-> << >>, prediction |-> << >>]
  /\ ppc = "classify"

\* similarity_idx = [t.index(max(t)) for t in similarity];
\* the list appended to predictions is [labels_study[a] for a in similarity_idx]
Classify ==
  /\ ppc = "classify"
  /\ LET similarity_idx ==
           [r \in 1..Len(px.similarity) |->
              PyIndex(px.similarity[r], PyMax(px.similarity[r]))]
     IN py' = [ similarity_idx |-> similarity_idx,
                prediction |-> [r \in 1..Len(similarity_idx) |->
                                  px.labels_study[similarity_idx[r] + 1]] ]
  /\ ppc' = "classified"
  /\ UNCHANGED << runVars, px >>

NextClassify == Classify

SpecClassify == InitClassify /\ [][NextClassify]_vars

\* ------------------------------------------------------------ properties
IsSchapiro == cfg.driver = "schapiro"

\* trials of a whole run: seeds x epochs x trials per epoch
RunTrials == cfg.seeds * cfg.train_epochs * Min(cfg.study_batches, cfg.recall_batches)

\* every trial issues one early probe and, at a later step, one late probe
TwoProbesPerTrial == cfg.early_response_step < cfg.late_response_steps

ProbeEntries(acc) == {acc[i] : i \in 2..Len(acc)}

CallIndices(modes) == {i \in 1..Len(trialCalls) : trialCalls[i].mode \in modes}

\* the step indices of the recall-mode calls of the current trial, in order
RECURSIVE RecallSteps(_)
RecallSteps(calls) ==
  IF calls = << >> THEN << >>
  ELSE IF Head(calls).mode = "recall"
         THEN << Head(calls).step >> \o RecallSteps(Tail(calls))
         ELSE RecallSteps(Tail(calls))

\* C1: after a run with S seeds, E epochs and B trials per epoch in which
\* every trial issues one early and one late probe, the early slice and the
\* late slice of each component's matrix accumulator and contrast
\* accumulator each hold exactly S*E*B entries.
C1_SliceCounts ==
  (pc = "aggregated" /\ TwoProbesPerTrial) =>
    \A a \in Components :
      /\ Len(pearson_r_early[a]) = RunTrials
      /\ Len(pearson_r_late[a]) = RunTrials
      /\ Len(pearson_r_early_test[a]) = RunTrials
      /\ Len(pearson_r_late_test[a]) = RunTrials

C1_Witness ==
  /\ pc = "aggregated" /\ TwoProbesPerTrial
  /\ cfg.seeds = 2 /\ cfg.train_epochs = 2 /\ nTrials = 2
  /\ Len(pearson_r_early["pr"]) = 8

\* C2: every entry of an early slice (matrices, contrast vectors, exported
\* predictions) was appended by the probe after study step
\* early_response_step-1 of its trial, and every entry of a late slice by
\* the probe after the final study step.
C2_SliceByProbePosition ==
  /\ pc = "aggregated" =>
       \A a \in Components :
         /\ \A i \in 1..Len(pearson_r_early[a]) :
              pearson_r_early[a][i].at[4] = cfg.early_response_step - 1
         /\ \A i \in 1..Len(pearson_r_early_test[a]) :
              pearson_r_early_test[a][i].at[4] = cfg.early_response_step - 1
         /\ \A i \in 1..Len(pearson_r_late[a]) :
              pearson_r_late[a][i].at[4] = cfg.late_response_steps - 1
         /\ \A i \in 1..Len(pearson_r_late_test[a]) :
              pearson_r_late_test[a][i].at[4] = cfg.late_response_steps - 1
  /\ \A f \in 1..Len(files) : \A r \in 1..Len(files[f].rows) :
       /\ files[f].name.table = "predictions_early" =>
            files[f].rows[r].at[4] = cfg.early_response_step - 1
       /\ files[f].name.table = "predictions_late" =>
            files[f].rows[r].at[4] = cfg.late_response_steps - 1

\* C3: when early_response_step >= late_response_steps, the run fails
\* before any trial executes: no reset, study step or probe occurs.
C3_EarlyNotBeforeLateFailsFirst ==
  (IsSchapiro /\ cfg.early_response_step >= cfg.late_response_steps) =>
    /\ nResets = 0
    /\ nStudyCalls = 0
    /\ nRecallCalls = 0

\* C4: when the study and recall streams have different numbers of
\* batches, no reset, study step or recall call happens.
C4_MismatchedStreamsFailFirst ==
  (cfg.study_batches # cfg.recall_batches) =>
    /\ nResets = 0
    /\ nStudyCalls = 0
    /\ nRecallCalls = 0

\* C5: when the metrics configuration lists have mismatched lengths, the
\* failure precedes the first reset and the first study step.
C5_MetricsMismatchFailsFirst ==
  (IsSchapiro /\ cfg.metrics = "mismatch") =>
    /\ nResets = 0
    /\ nStudyCalls = 0

\* C6: every entry appended for a component is computed from that
\* component's own features of the probe that appends it.
C6_OwnFeatures ==
  \A a \in Components :
    /\ \A e \in ProbeEntries(pearson_r_tensor[a]) :
         e.comp = a /\ e.src.comp = a /\ e.src.probe = e.at
    /\ \A e \in ProbeEntries(pearson_r_test[a]) :
         e.comp = a /\ e.src.comp = a /\ e.src.probe = e.at

\* C7: in both drivers a trial resets the model exactly once, before its
\* first study call and after every study or recall call of the previous
\* trial, so a study step never runs on state left by an earlier trial.
C7_ResetOncePerTrial ==
  LET resets == CallIndices({"reset"})
      uses == CallIndices({"study", "recall"})
  IN /\ Cardinality(resets) <= 1
     /\ \A u \in uses : \E r \in resets : r < u
     /\ pc \in {"study", "component", "post", "o_study", "o_recall"} =>
          Cardinality(resets) = 1
     /\ pc \in {"study", "o_study"} =>
          /\ dirtyTrial \in {NoTrial, CurTrial}
          /\ step = 0 => dirtyTrial = NoTrial

C7_Witness ==
  /\ pc = "post" /\ stm_epoch = 1 /\ idx = 1
  /\ cfg.late_response_steps = 2
  /\ dirtyTrial = CurTrial

\* C8: a trial performs exactly late_response_steps study calls and exactly
\* two probes, the early one right after study step early_response_step-1
\* and the late one right after the final study step, in that order.
C8_TwoProbesPerTrial ==
  (IsSchapiro /\ pc = "post") =>
    /\ Cardinality(CallIndices({"study"})) = cfg.late_response_steps
    /\ RecallSteps(trialCalls) =
         << cfg.early_response_step - 1, cfg.late_response_steps - 1 >>
    /\ \A i \in CallIndices({"recall"}) :
         trialCalls[i - 1] = Call("study", trialCalls[i].step)

IsPrefix(s, t) == Len(s) <= Len(t) /\ SubSeq(t, 1, Len(s)) = s

\* C9: the matrix and contrast accumulators only grow by append: a probe
\* adds one entry at the end for the component it handles, and no step
\* changes, reorders, removes or resets an entry already present.
C9_AppendOnly ==
  [][ \A a \in Components :
        /\ IsPrefix(pearson_r_tensor[a], pearson_r_tensor'[a])
        /\ IsPrefix(pearson_r_test[a], pearson_r_test'[a])
        /\ Len(pearson_r_tensor'[a]) <= Len(pearson_r_tensor[a]) + 1
        /\ Len(pearson_r_test'[a]) <= Len(pearson_r_test[a]) + 1
        /\ ( pc = "component" /\ pc' # "failed" /\ cfg.test_components[ci] = a ) =>
             /\ Len(pearson_r_tensor'[a]) = Len(pearson_r_tensor[a]) + 1
             /\ Len(pearson_r_test'[a]) = Len(pearson_r_test[a]) + 1 ]_vars

C9_Witness ==
  /\ seedIdx = 1 /\ stm_epoch = 1
  /\ Len(pearson_r_tensor["pr"]) >= 5
  /\ Len(pearson_r_test["pr"]) >= 5

\* C10: at aggregation the entries averaged as early and those averaged
\* as late are disjoint, and together they are exactly the entries the
\* probes appended; the placeholder row is in neither.
C10_SlicesPartitionEntries ==
  pc = "aggregated" =>
    \A a \in Components :
      /\ Range(pearson_r_early[a]) \cap Range(pearson_r_late[a]) = {}
      /\ Range(pearson_r_early[a]) \cup Range(pearson_r_late[a])
           = ProbeEntries(pearson_r_tensor[a])
      /\ Len(pearson_r_early[a]) + Len(pearson_r_late[a])
           = Len(pearson_r_tensor[a]) - 1
      /\ Placeholder \notin Range(pearson_r_early[a]) \cup Range(pearson_r_late[a])

C10_Witness ==
  /\ pc = "aggregated"
  /\ Len(pearson_r_early["pr"]) >= 2
  /\ Len(pearson_r_late["pr"]) >= 2
  /\ Len(pearson_r_tensor["pr"]) >= 5


\* the entries at the positions k, k+2, k+4, ... (0-based) of acc, in order
EveryOther(acc, k) ==
  LET n == IF Len(acc) > k THEN (Len(acc) - k + 1) \div 2 ELSE 0
  IN  [i \in 1..n |-> acc[k + 2 * (i - 1) + 1]]

\* C11 as stated: the aggregator produces one early and one late contrast
\* vector per component.
C11_OneContrastVector ==
  (pc = "aggregated" /\ TwoProbesPerTrial) =>
    \A a \in Components :
      /\ Len(pearson_r_early_test[a]) = 1
      /\ Len(pearson_r_late_test[a]) = 1

\* C11 (amended): per component the aggregator produces one averaged early
\* matrix and one averaged late matrix, each over the whole early (late)
\* slice, but it does not average the contrast entries: the early (late)
\* contrast table keeps every entry of the early (late) slice as its own
\* row, in append order - S*E*B rows each when every trial issues both
\* probes.
C11_MeanMatrixContrastRows ==
  pc = "aggregated" =>
    \A a \in Components :
      /\ pearson_r_early_mean[a].kind = "mean"
      /\ pearson_r_late_mean[a].kind = "mean"
      /\ pearson_r_early_mean[a].of = Range(EveryOther(pearson_r_tensor[a], 1))
      /\ pearson_r_late_mean[a].of = Range(EveryOther(pearson_r_tensor[a], 2))
      /\ pearson_r_early_mean[a].n + pearson_r_late_mean[a].n
           = Len(pearson_r_tensor[a]) - 1
      /\ pearson_r_early_test[a] = EveryOther(pearson_r_test[a], 1)
      /\ pearson_r_late_test[a] = EveryOther(pearson_r_test[a], 2)
      /\ TwoProbesPerTrial =>
           /\ pearson_r_early_mean[a].n = RunTrials
           /\ pearson_r_late_mean[a].n = RunTrials
           /\ Len(pearson_r_early_test[a]) = RunTrials
           /\ Len(pearson_r_late_test[a]) = RunTrials
           /\ \A i \in 1..RunTrials :
                /\ pearson_r_early_test[a][i].at[4] = cfg.early_response_step - 1
                /\ pearson_r_late_test[a][i].at[4] = cfg.late_response_steps - 1

C11_Witness ==
  /\ pc = "aggregated" /\ TwoProbesPerTrial
  /\ RunTrials >= 4
  /\ Len(pearson_r_early_test["pr"]) >= 4
  /\ pearson_r_early_mean["pr"].n >= 4

\* the raw table of the given kind written for epoch e of seed s
RawTables(t, e, s) ==
  {i \in 1..Len(files) : files[i].name = [table |-> t, epoch |-> e, seed |-> s]}

RowTrial(row) ==
  IF "trial" \in DOMAIN row THEN row.trial ELSE SubSeq(row.at, 1, 3)

RawTableNames == {"predictions_early", "predictions_late", "pair_inputs"}

\* C12: for every (seed, epoch) pair the exporter writes the three raw
\* tables of that pair, and each holds rows of that seed and epoch only.
C12_TablesPerSeedEpoch ==
  (pc = "aggregate") =>
    \A s \in 0..(cfg.seeds - 1) : \A e \in 0..(cfg.train_epochs - 1) :
      \A t \in RawTableNames :
        /\ RawTables(t, e, s) # {}
        /\ \A i \in RawTables(t, e, s) : \A r \in 1..Len(files[i].rows) :
             /\ RowTrial(files[i].rows[r])[1] = s
             /\ RowTrial(files[i].rows[r])[2] = e

\* the trials of one seed, in execution order
SeedTrials(s) ==
  LET b == Min(cfg.study_batches, cfg.recall_batches)
  IN  [k \in 1..(cfg.train_epochs * b) |-> << s, (k - 1) \div b, (k - 1) % b >>]

\* C13: the index-pair table of a seed has one row per executed trial, in
\* trial order, and with the reconstruction component tracked the
\* predictions-early and predictions-late tables have one row per executed
\* trial each.
C13_OneRowPerTrial ==
  \A i \in 1..Len(files) :
    LET f == files[i]
        trials == SeedTrials(f.name.seed)
    IN /\ Len(f.rows) \in {0, Len(trials)}
       /\ f.name.table = "pair_inputs" => Len(f.rows) = Len(trials)
       /\ "recon_pair" \in Components => Len(f.rows) = Len(trials)
       /\ \A r \in 1..Len(f.rows) : RowTrial(f.rows[r]) = trials[r]

\* C14: a failing model call aborts the seed that made it and no more: it
\* does not end the run.
C14_CollaboratorFailureIsolated ==
  err = "CollaboratorError" => pc # "failed"

\* the names of all raw tables a run writes / has written
ExpectedRawNames ==
  {[table |-> t, epoch |-> cfg.train_epochs - 1, seed |-> s] :
     t \in RawTableNames, s \in 0..(cfg.seeds - 1)}

ExpectedAggregatedNames ==
  {[table |-> t, component |-> a] :
     t \in {"pearson_early_test", "pearson_late_test", "pearson_early", "pearson_late"},
     a \in Components}

WrittenRawNames == {files[i].name : i \in 1..Len(files)}
WrittenAggregatedNames == {agg_files[i].name : i \in 1..Len(agg_files)}

\* C15: when the write of one result file fails, every other result file
\* of the run is still written.
C15_WriteFailureIsolated ==
  (pc = "failed" /\ err = "OSError") =>
    Cardinality(ExpectedRawNames \ WrittenRawNames)
      + Cardinality(ExpectedAggregatedNames \ WrittenAggregatedNames) <= 1

\* C16 as stated: one generator is built at the start of each of the S*E
\* epochs.
C16_GeneratorPerEpoch ==
  /\ (IsSchapiro /\ pc = "trial") =>
       nGenerators = seedIdx * cfg.train_epochs + stm_epoch + 1
  /\ (IsSchapiro /\ pc = "aggregate") =>
       nGenerators = cfg.seeds * cfg.train_epochs

\* C16 (amended): a sequence generator is constructed once for each seed
\* iteration, S in a run, never at the start of an epoch; the trials of all
\* epochs of a seed draw their study sequence from that seed's generator.
C16_GeneratorPerSeed ==
  /\ (IsSchapiro /\ pc \notin {"seed", "failed"}) => nGenerators = seedIdx + 1
  /\ (IsSchapiro /\ pc = "seed") => nGenerators = seedIdx
  /\ pc \in {"aggregate", "aggregated", "written"} => nGenerators = cfg.seeds
  /\ \A r \in 1..Len(pairs_inputs) :
       pairs_inputs[r].gen = pairs_inputs[r].trial[1] + 1
  /\ \A i \in 1..Len(files) : \A r \in 1..Len(files[i].rows) :
       files[i].name.table = "pair_inputs" =>
         files[i].rows[r].gen = files[i].rows[r].trial[1] + 1

C16_Witness ==
  /\ pc = "aggregate"
  /\ cfg.seeds = 2 /\ cfg.train_epochs = 2
  /\ nGenerators = 2
  /\ \E i \in 1..Len(files) :
       /\ files[i].name.table = "pair_inputs"
       /\ \E r \in 1..Len(files[i].rows) :
            files[i].rows[r].trial[2] = 1 /\ files[i].rows[r].gen = 2

\* the rational numbers x and y are equal
FracEq(x, y) == x.num * y.den = y.num * x.den

\* The contrast the given variant takes of matrix r, column by column, as
\* pairs (partition whose mean is taken, partition whose mean is subtracted).
ExpectedContrast(experiment, r, sequence_study) ==
  LET mean(cells) == PatternMean(r, cells)
  IN  IF experiment = "pairs_structure"
        THEN << mean(sequence_study.core_sequence),
                mean(sequence_study.test_sequence) >>
      ELSE IF experiment = "associative_inference"
        THEN << FracSub(mean(sequence_study.test_sequence),
                        mean(sequence_study.base_sequence)),
                FracSub(mean(sequence_study.core_sequence),
                        mean(sequence_study.base_sequence)) >>
      ELSE [g \in 1..4 |-> mean(sequence_study.graph_sequences[g])]

\* C17: every contrast vector a probe appends for a component is, by
\* variant, pair -> (core mean, test mean); triad -> (test - base,
\* core - base); community -> the means over graph_sequences 0..3 in that
\* order, each taken over the matrix the same probe appended for that
\* component.
C17_ContrastByVariant ==
  \A a \in DOMAIN py.test :
    \A pos \in 2..Len(py.test[a]) :
      LET expected == ExpectedContrast(py.experiment, py.tensor[a][pos],
                                       SequenceStudy(px))
          columns == py.test[a][pos].columns
      IN  /\ Len(py.tensor[a]) >= pos
          /\ Len(columns) = Len(expected)
          /\ \A k \in 1..Len(columns) : FracEq(columns[k].val, expected[k])

\* Both probes of a trial have appended a contrast vector whose first two
\* columns differ, so that their order matters.
C17_Witness ==
  /\ ppc = "export"
  /\ \E a \in DOMAIN py.test :
       /\ Len(py.test[a]) = 3
       /\ ~FracEq(py.test[a][2].columns[1].val, py.test[a][2].columns[2].val)
       /\ ~FracEq(py.test[a][3].columns[1].val, py.test[a][3].columns[2].val)

\* the category name the bar chart uses for a partition mean
CategoryOf(column) ==
  IF column.minus = "base_sequence"
    THEN (IF column.plus = "test_sequence" THEN "transitive" ELSE "direct")
  ELSE IF column.plus = "core_sequence" THEN "pair"
  ELSE IF column.plus = "test_sequence" THEN "shuffled"
  ELSE IF column.plus = "graph_sequences[0]" THEN "within internal"
  ELSE IF column.plus = "graph_sequences[1]" THEN "within boundary"
  ELSE IF column.plus = "graph_sequences[2]" THEN "across boundary"
  ELSE "across other"

\* C18: every row of the long-form table carries the label of the probe
\* timing and of the category whose partition mean produced its value, and
\* the name of the component for which that value was computed.
C18_BarLabelsMatchProducer ==
  \A r \in 1..Len(py.df) :
    LET row == py.df[r]
    IN  /\ row.C = row.of.comp
        /\ row.B = Label(IF row.of.probe = "early" THEN "Early" ELSE "Late",
                         CategoryOf(row.A))
        /\ row.A \in Range(row.of.columns)

\* The table of a two-component triad run is complete.
C18_Witness ==
  /\ ppc = "done"
  /\ py.experiment = "associative_inference"
  /\ \E r, q \in 1..Len(py.df) : py.df[r].C = "pr" /\ py.df[q].C = "recon_pair"
  /\ \E r, q \in 1..Len(py.df) :
       py.df[r].B.timing = "Early" /\ py.df[q].B.timing = "Late"

\* C19: every recalled pattern gets the label of the reference pattern of
\* maximum similarity, the one of smallest index among equals, and that
\* label is one of the core label sequence.
C19_FirstMaximumLabel ==
  ppc = "classified" =>
    /\ Len(py.prediction) = Len(px.similarity)
    /\ \A r \in 1..Len(px.similarity) :
         LET t == px.similarity[r]
         IN  \E k \in 1..Len(t) :
               /\ \A j \in 1..Len(t) : t[j] <= t[k]
               /\ \A j \in 1..(k - 1) : t[j] < t[k]
               /\ py.prediction[r] = px.labels_study[k]
               /\ py.prediction[r] \in Range(px.labels_study)

\* A recalled pattern was classified whose maximum similarity is shared by
\* two reference patterns of different labels.
C19_Witness ==
  /\ ppc = "classified"
  /\ \E r \in 1..Len(px.similarity) :
       LET t == px.similarity[r]
       IN  \E j, k \in 1..Len(t) :
             /\ j < k
             /\ t[j] = t[k]
             /\ \A i \in 1..Len(t) : t[i] <= t[j]
             /\ px.labels_study[j] # px.labels_study[k]

\* C20: for every study batch size and item count, the matrix a probe
\* computes is characters x characters, over rows 0..characters-1 of the
\* recall output, and so is every matrix in the accumulator.
C20_MatrixIsItemsSquare ==
  LET N == px.characters
      square(m) == m.n = N /\ m.rows = [i \in 1..N |-> i - 1]
  IN  /\ \A i \in 1..Len(py.computed) : square(py.computed[i])
      /\ \A a \in DOMAIN py.tensor :
           \A pos \in 2..Len(py.tensor[a]) : square(py.tensor[a][pos])

\* the number of renderer calls of a run that renders everything
RendererCalls == 2 * Len(cfg.test_components) + 1

\* C21: once the aggregated files are written, the run hands the early and
\* the late matrix of every component to the heatmap renderer and the
\* contrast tables, once, to the bar-chart renderer, and ends normally.
C21_RendersAndEnds ==
  [][ pc = "written" =>
        /\ pc' = "done"
        /\ Len(rendered') = RendererCalls
        /\ rendered'[RendererCalls].renderer = "BarPlotter" ]_vars

\* A run is scheduled until it has ended.
FairSpec == Spec /\ WF_vars(Next)

\* C22: a run of schapiro_experiments.main ends, and when it reaches the
\* aggregation it has made exactly S*E*B*L study-mode calls and S*E*B
\* resets (B the number of trials of an epoch, L = late_response_steps).
C22_TerminatesWithFixedWork ==
  /\ <>(pc \in {"failed", "done", "o_done"})
  /\ []( (IsSchapiro /\ pc \in {"aggregate", "aggregated", "written", "done"}) =>
           /\ nStudyCalls = RunTrials * cfg.late_response_steps
           /\ nResets = RunTrials )

C22_Witness ==
  /\ IsSchapiro /\ pc = "aggregate"
  /\ cfg.seeds = 2 /\ cfg.train_epochs = 2
  /\ cfg.study_batches = 2 /\ cfg.recall_batches = 1
  /\ cfg.late_response_steps = 2
  /\ nStudyCalls = 8 /\ nResets = 4

\* the modes of a list of calls, in order
Modes(calls) == [i \in 1..Len(calls) |-> calls[i].mode]

\* what a whole trial of oneshot_cls.main calls, in order
OneshotTrialModes ==
  << "load_state_dict", "reset" >>
  \o [i \in 1..cfg.late_response_steps |-> "study"]
  \o << "recall", "metrics" >>

\* C23: a trial of oneshot_cls.main reloads the pretrained weights,
\* resets, makes exactly study_steps study-mode calls and then exactly one
\* recall-mode call, followed by the metrics; the trial is complete
\* before the next one begins.
C23_OneshotTrialOrder ==
  cfg.driver = "oneshot" =>
    /\ IsPrefix(Modes(trialCalls), OneshotTrialModes)
    /\ pc = "o_study" => Len(trialCalls) = 2 + step
    /\ pc = "o_recall" => Len(trialCalls) = 2 + cfg.late_response_steps
    /\ (pc = "o_done" \/ (pc = "o_trial" /\ idx > 0)) =>
         Modes(trialCalls) = OneshotTrialModes

C23_Witness ==
  /\ cfg.driver = "oneshot" /\ pc = "o_trial" /\ idx = 1
  /\ cfg.late_response_steps = 2
  /\ Len(trialCalls) = 6

\* C24: with test_single_characters false, no trial reads the recall
\* stimulus before it has been assigned.
C24_PairedRecallDefined ==
  (IsSchapiro /\ ~cfg.test_single_characters) =>
    ~(pc = "failed" /\ err = "UnboundLocalError" /\ ~recall_data_bound)

\* the file of table t that the per-seed export wrote for seed s
SeedFile(t, s) ==
  files[CHOOSE i \in 1..Len(files) :
          files[i].name.table = t /\ files[i].name.seed = s]

\* the entries of an aggregator slice that the probes of seed s appended
OfSeed(slice, s) ==
  LET InSeed(e) == e.at[1] = s
  IN  SelectSeq(slice, InSeed)

\* the probes that produced the entries (rows) of a list, in order
ProbesOf(entries) == [i \in 1..Len(entries) |-> entries[i].at]

\* C25: the k-th entry of the early matrix slice, of the early contrast
\* slice and - seed by seed, with the reconstruction component tracked -
\* the k-th early prediction row come from the same probe; likewise late.
C25_SlicesAligned ==
  pc = "aggregated" =>
    /\ \A a \in Components :
         /\ ProbesOf(pearson_r_early[a]) = ProbesOf(pearson_r_early_test[a])
         /\ ProbesOf(pearson_r_late[a]) = ProbesOf(pearson_r_late_test[a])
    /\ "recon_pair" \in Components =>
         \A s \in 0..(cfg.seeds - 1) :
           /\ ProbesOf(SeedFile("predictions_early", s).rows)
                = ProbesOf(OfSeed(pearson_r_early["recon_pair"], s))
           /\ ProbesOf(SeedFile("predictions_late", s).rows)
                = ProbesOf(OfSeed(pearson_r_late["recon_pair"], s))

\* C26: after every completed probe all components' matrix and contrast
\* accumulators have the length 1 + number of probes so far, and the
\* append for one component leaves the accumulators of every other
\* component as they were.
C26_ComponentsInStep ==
  [][ IsSchapiro =>
        /\ ~( \/ pc' = "component"
              \/ pc' = "failed" /\ err' \in {"KeyError", "UnboundLocalError"} ) =>
             \A a \in Components :
               /\ Len(pearson_r_tensor'[a]) = 1 + nRecallCalls'
               /\ Len(pearson_r_test'[a]) = 1 + nRecallCalls'
        /\ pc = "component" =>
             \A a \in Components \ {cfg.test_components[ci]} :
               /\ pearson_r_tensor'[a] = pearson_r_tensor[a]
               /\ pearson_r_test'[a] = pearson_r_test[a] ]_vars

C26_Witness ==
  /\ IsSchapiro /\ pc = "post"
  /\ Len(cfg.test_components) = 2
  /\ nRecallCalls = 2
  /\ \A a \in Components : Len(pearson_r_tensor[a]) = 3 /\ Len(pearson_r_test[a]) = 3

\* C28: without a configured model path and with pretrain_epochs >= 1 only
\* the first seed iteration makes pretrain-mode calls; every later one
\* makes none and loads the model the first iteration saved last.
C28_PretrainFirstSeedOnly ==
  ( /\ IsSchapiro
    /\ cfg.pretrain.pretrained_model_path = "none"
    /\ cfg.pretrain.pretrain_epochs >= 1 ) =>
      /\ pc \notin {"seed", "failed"} => Len(seed_log) = seedIdx + 1
      /\ \A k \in 1..Len(seed_log) :
           IF k = 1
             THEN /\ seed_log[k].pretrain_calls
                       = cfg.pretrain.pretrain_epochs * cfg.pretrain.train_batches
                  /\ seed_log[k].loaded = "none"
             ELSE /\ seed_log[k].pretrain_calls = 0
                  /\ seed_log[k].loaded \in Range(saved_models)
                  /\ seed_log[k].loaded.seed = 0
                  /\ seed_log[k].loaded.epoch = cfg.pretrain.pretrain_epochs

C28_Witness ==
  /\ IsSchapiro /\ pc = "epoch" /\ seedIdx = 1
  /\ cfg.pretrain.pretrained_model_path = "none"
  /\ cfg.pretrain.pretrain_epochs = 2
  /\ Len(seed_log) = 2
  /\ seed_log[2].pretrain_calls = 0

\* C27: whatever experiment name is configured, the variant is one of the
\* three (an unrecognised name becomes pairs_structure), every probe finds
\* a contrast rule, and every contrast row appended is as wide as the
\* first row of the accumulator: 4 for community_structure, 2 otherwise.
C27_VariantFixesWidth ==
  LET width == IF py.experiment = "community_structure" THEN 4 ELSE 2
  IN  /\ py.experiment \in Experiments
      /\ py.experiment = (IF px.experiment \in Experiments
                            THEN px.experiment ELSE "pairs_structure")
      /\ py.err # "UnboundLocalError"
      /\ px.study_batch_size >= px.characters => py.err = ""
      /\ \A a \in DOMAIN py.test :
           /\ Len(py.test[a][1].columns) = width
           /\ \A pos \in 2..Len(py.test[a]) :
                /\ Len(py.test[a][pos].columns) = width
                /\ Len(py.tensor[a]) = Len(py.test[a])

\* Both probes of a run configured with an unrecognised name have
\* appended their contrast rows.
C27_Witness ==
  /\ ppc = "export"
  /\ px.experiment = "four_structure"
  /\ \A a \in DOMAIN py.test : Len(py.test[a]) = 3

\* C29: in single-character recall mode the recall batch of a trial has
\* exactly study_batch_size rows, whatever the rows of the study batch;
\* row i holds item i mod N with target i mod N; and with
\* study_batch_size >= N row i of every matrix appended is item i.
C29_RecallRowsAreItems ==
  ppc # "probe_early" =>
    /\ Len(py.recall_data) = px.study_batch_size
    /\ \A i \in 1..Len(py.recall_data) :
         /\ py.recall_data[i].row = i - 1
         /\ py.recall_data[i].item = (i - 1) % px.characters
         /\ py.recall_data[i].target = (i - 1) % px.characters
    /\ px.study_batch_size >= px.characters =>
         \A a \in DOMAIN py.tensor :
           \A pos \in 2..Len(py.tensor[a]) :
             py.tensor[a][pos].items = [i \in 1..px.characters |-> i - 1]

\* A trial with a study batch shorter than study_batch_size and a recall
\* batch longer than the item pool has made both probes.
C29_Witness ==
  /\ ppc = "export"
  /\ px.study_rows < px.study_batch_size
  /\ px.study_batch_size > px.characters
  /\ Len(py.recall_data) = px.study_batch_size

====
